---- MODULE Spec2Model ----
(***************************************************************************)
(* A model of the http-client repository: the bearer-token auth provider   *)
(* with its process-wide token cache (pt_http_client/auth/bearer.py) and   *)
(* the HttpClient wrapper around an httpx session (core/client.py) with    *)
(* its hook handlers (pt_http_client/event_hooks).                         *)
(***************************************************************************)
EXTENDS Integers, Sequences, FiniteSets, TLC

\* ------------------------------------------------------------------ bounds

\* Token endpoint calls (POSTs) explored in one behaviour.
MaxTokenPosts == 2
\* Nesting depth of switch_to_user blocks explored per provider.
MaxDepth == 2
\* Attempts a retry policy allows (stop_after_attempt).
MaxAttempts == 2
\* add_handler calls explored on one client.
MaxAdds == 2
\* httpx sessions one client creates (each close allows a new one).
MaxSessions == 2
\* Requests each concurrent caller makes, one after the other.
MaxCalls == 2
\* Characters by which the longest body explored exceeds max_body_length.
MaxExcess == 2

\* ------------------------------------------------------- auth: the domain

Providers == {1, 2}

AdminIdentity == <<"admin", "pw">>
SwitchIdentities == {<<"alice", "pw">>, <<"alice", "pw2">>}
\* The username and password of a provider built for the client-credentials
\* grant, which has neither; its client ids.
ClientCredentialsIdentity == <<"", "">>
DefaultClientId == "app"
ClientIds == {"app", "other"}
Identities == {AdminIdentity, ClientCredentialsIdentity} \cup SwitchIdentities

\* The value of a header or cache slot that holds no token.
NoToken == [client_id |-> "-", username |-> "-", password |-> "-", n |-> 0]

\* What the token endpoint can answer to a POST: a JSON body with an
\* access_token, an error status, or a 2xx body without access_token.
EndpointReplies == {"ok", "http_error", "no_access_token"}

\* The statuses the target API answers an authenticated request with.
ApiStatuses == {200, 401}

VARIABLES
    token_cache,        \* BearerTokenAuth._token_cache: identity -> token
    username,           \* provider -> self.username
    password,           \* provider -> self.password
    current_user_key,   \* provider -> self._current_user_key
    admin_user,         \* provider -> self._admin_user
    client_id,          \* provider -> self.client_id
    blocks,             \* provider -> identities of the open switch_to_user blocks
    issued,             \* identity -> tokens the endpoint issued for its credentials
    tokenPosts,         \* POSTs made to the token endpoint so far
    lastAuth            \* what the last provider operation did

authVars == <<token_cache, username, password, current_user_key, admin_user, client_id,
              blocks, issued, tokenPosts, lastAuth>>

VARIABLES
    handlers,           \* HttpClient._handlers: the registered handler list
    client,             \* HttpClient._client: the live httpx session, or NoClient
    closes,             \* per created session, the calls of its close()
    adds,               \* add_handler calls made so far
    inWith,             \* the client is the subject of a running with-block
    lastCall            \* what the last client operation did

clientVars == <<handlers, client, closes, adds, inWith, lastCall>>

VARIABLES
    token               \* core provider -> self._token of core/auth/bearer.py

coreVars == <<token>>

VARIABLES
    data,               \* the argument of a _truncate_body call
    shown               \* what the call returned, NotCalled before it

bodyVars == <<data, shown>>

VARIABLES
    pc,                 \* caller -> where its thread is in auth_flow / _fetch_token
    fetched,            \* caller -> the local variable token of _fetch_token
    authorization,      \* caller -> the token in its request's Authorization header
    posts,              \* caller -> POSTs its current request has made
    calls,              \* caller -> requests it has started
    lastStored          \* the token of the latest _token_cache[key] = token

raceVars == <<pc, fetched, authorization, posts, calls, lastStored>>

VARIABLES
    lists,              \* the list objects of the process: object id -> handlers
    maps,               \* the dict objects of the process: object id -> headers
    clients,            \* client -> its attributes, by reference where Python has one
    shareOp             \* what the last operation on these clients was

shareVars == <<lists, maps, clients, shareOp>>

vars == <<authVars, clientVars, coreVars, bodyVars, raceVars, shareVars>>

\* What an operation of one class leaves alone: the state of the others.
outsideAuth == <<clientVars, coreVars, bodyVars, raceVars, shareVars>>
outsideClient == <<authVars, coreVars, bodyVars, raceVars, shareVars>>
outsideShare == <<authVars, clientVars, coreVars, bodyVars, raceVars>>
outsideCore == <<clientVars, bodyVars, raceVars, shareVars, username, password,
                 current_user_key, admin_user, client_id, blocks, token_cache>>
outsideBody == <<authVars, clientVars, coreVars, raceVars, shareVars>>
outsideRace == <<clientVars, coreVars, bodyVars, shareVars, username, password,
                 current_user_key, admin_user, client_id, blocks, lastAuth>>

NoAuthOp == [op |-> "none", provider |-> 0, key |-> AdminIdentity,
             cached |-> FALSE, posted |-> FALSE, error |-> "none",
             header |-> NoToken, before |-> NoToken,
             sends |-> 0, response |-> 0]

\* ---------------------------------------------------- auth: the provider

\* BearerTokenAuth.__init__: the provider starts as the admin user.
AuthInit ==
    /\ token_cache = [i \in Identities |-> NoToken]
    /\ admin_user = [p \in Providers |-> AdminIdentity]
    /\ client_id = [p \in Providers |-> DefaultClientId]
    /\ username = [p \in Providers |-> AdminIdentity[1]]
    /\ password = [p \in Providers |-> AdminIdentity[2]]
    /\ current_user_key = [p \in Providers |-> AdminIdentity]
    /\ blocks = [p \in Providers |-> <<>>]
    /\ issued = [i \in Identities |-> 0]
    /\ tokenPosts = 0
    /\ lastAuth = NoAuthOp

\* BearerTokenAuth.__init__ of providers built for the client-credentials
\* grant: grant_type="client_credentials", a client id each, and the empty
\* username and password the signature still asks for.
ClientCredentialsInit(ids) ==
    /\ token_cache = [i \in Identities |-> NoToken]
    /\ admin_user = [p \in Providers |-> ClientCredentialsIdentity]
    /\ client_id = ids
    /\ username = [p \in Providers |-> ClientCredentialsIdentity[1]]
    /\ password = [p \in Providers |-> ClientCredentialsIdentity[2]]
    /\ current_user_key = [p \in Providers |-> ClientCredentialsIdentity]
    /\ blocks = [p \in Providers |-> <<>>]
    /\ issued = [i \in Identities |-> 0]
    /\ tokenPosts = 0
    /\ lastAuth = NoAuthOp

\* The token endpoint's answer to the credentials (u, pw): its n-th token.
IssueToken(cid, u, pw) ==
    [client_id |-> cid, username |-> u, password |-> pw, n |-> issued[<<u, pw>>] + 1]

\* A _fetch_token that skips the cache lookup and always posts.
FetchTokenAlways(p, reply) ==
    LET key == current_user_key[p]
        tok == IssueToken(client_id[p], username[p], password[p])
    IN  IF reply = "ok"
        THEN [posted |-> TRUE, error |-> "none", token |-> tok,
              cache |-> [token_cache EXCEPT ![key] = tok]]
        ELSE [posted |-> TRUE,
              error |-> IF reply = "http_error" THEN "HTTPStatusError" ELSE "KeyError",
              token |-> NoToken, cache |-> token_cache]

\* A _fetch_token that stores what it got before it checks the answer.
FetchTokenStoreFirst(p, reply) ==
    LET key == current_user_key[p]
        tok == IssueToken(client_id[p], username[p], password[p])
    IN  IF token_cache[key] # NoToken
        THEN [posted |-> FALSE, error |-> "none", token |-> token_cache[key],
              cache |-> token_cache]
        ELSE [posted |-> TRUE,
              error |-> IF reply = "ok" THEN "none"
                        ELSE IF reply = "http_error" THEN "HTTPStatusError"
                        ELSE "KeyError",
              token |-> IF reply = "ok" THEN tok ELSE NoToken,
              cache |-> [token_cache EXCEPT ![key] = tok]]

\* BearerTokenAuth._fetch_token: the cached token of the current key, or a
\* POST to the token endpoint whose token is stored under the current key.
\* raise_for_status and the access_token lookup raise before the store.
FetchToken(p, reply) ==
    LET key == current_user_key[p]
        tok == IssueToken(client_id[p], username[p], password[p])
    IN  IF token_cache[key] # NoToken
        THEN [posted |-> FALSE, error |-> "none", token |-> token_cache[key],
              cache |-> token_cache]
        ELSE IF reply = "ok"
        THEN [posted |-> TRUE, error |-> "none", token |-> tok,
              cache |-> [token_cache EXCEPT ![key] = tok]]
        ELSE [posted |-> TRUE,
              error |-> IF reply = "http_error" THEN "HTTPStatusError" ELSE "KeyError",
              token |-> NoToken, cache |-> token_cache]

\* An auth_flow that, answered 401, fetches a new token for the identity,
\* stores it and sends the request once more.
AuthFlowRefreshOn401(p, reply, status) ==
    LET r == FetchToken(p, reply)
        tok == [IssueToken(client_id[p], username[p], password[p]) EXCEPT !.n = @ + 1]
    IN  IF r.error # "none" THEN r @@ [sends |-> 0, response |-> 0]
        ELSE IF status = 401
        THEN [posted |-> TRUE, error |-> "none", token |-> tok,
              cache |-> [token_cache EXCEPT ![current_user_key[p]] = tok],
              sends |-> 2, response |-> status]
        ELSE r @@ [sends |-> 1, response |-> status]

\* BearerTokenAuth.auth_flow as httpx drives it: _fetch_token, the header,
\* yield request. An error of _fetch_token leaves the generator before the
\* yield, so httpx sends nothing. After the yield httpx hands the response
\* in; the generator has no code left, so it ends and the response, whatever
\* its status, goes back to the caller.
AuthFlow(p, reply, status) ==
    LET r == FetchToken(p, reply)
    IN  IF r.error # "none" THEN r @@ [sends |-> 0, response |-> 0]
        ELSE r @@ [sends |-> 1, response |-> status]

\* One request of a client whose auth is provider p: the token endpoint
\* answers a POST with reply, the target API answers the request with status.
Authenticate(p, reply, status) ==
    LET r == AuthFlow(p, reply, status)
        key == current_user_key[p]
    IN  /\ r.posted => tokenPosts < MaxTokenPosts
        /\ token_cache' = r.cache
        /\ tokenPosts' = IF r.posted THEN tokenPosts + 1 ELSE tokenPosts
        /\ issued' = IF r.posted /\ r.error = "none"
                     THEN [issued EXCEPT ![<<username[p], password[p]>>] = @ + 1]
                     ELSE issued
        /\ lastAuth' = [op |-> "auth", provider |-> p, key |-> key,
                        cached |-> token_cache[key] # NoToken,
                        posted |-> r.posted, error |-> r.error,
                        header |-> r.token, before |-> token_cache[key],
                        sends |-> r.sends, response |-> r.response]
        /\ UNCHANGED <<username, password, current_user_key, admin_user, client_id, blocks>>
        /\ UNCHANGED outsideAuth

\* BearerTokenAuth._update_user, as the three assignments it makes.
UpdateUser(p, u, pw) ==
    /\ username' = [username EXCEPT ![p] = u]
    /\ password' = [password EXCEPT ![p] = pw]
    /\ current_user_key' = [current_user_key EXCEPT ![p] = <<u, pw>>]

\* BearerTokenAuth._switch_to_admin.
SwitchToAdmin(p) == UpdateUser(p, admin_user[p][1], admin_user[p][2])

\* What switch_to_user does when the with-body raises: contextlib throws the
\* exception into the generator at its yield, and nothing after the yield runs.
SwitchOnRaise(p) == UNCHANGED <<username, password, current_user_key>>

\* switch_to_user, up to its yield: the with-block is entered.
SwitchEnter(p, id) ==
    /\ Len(blocks[p]) < MaxDepth
    /\ UpdateUser(p, id[1], id[2])
    /\ blocks' = [blocks EXCEPT ![p] = Append(@, id)]
    /\ lastAuth' = [NoAuthOp EXCEPT !.op = "enter", !.provider = p, !.key = id]
    /\ UNCHANGED <<token_cache, admin_user, client_id, issued, tokenPosts, outsideAuth>>

\* switch_to_user after its yield, when the with-body ends without an
\* exception (it ran to its end, or left by return, break or continue).
SwitchExit(p) ==
    /\ blocks[p] # <<>>
    /\ SwitchToAdmin(p)
    /\ blocks' = [blocks EXCEPT ![p] = SubSeq(@, 1, Len(@) - 1)]
    /\ lastAuth' = [NoAuthOp EXCEPT !.op = "exit", !.provider = p,
                                    !.key = blocks[p][Len(blocks[p])]]
    /\ UNCHANGED <<token_cache, admin_user, client_id, issued, tokenPosts, outsideAuth>>

\* The with-body of switch_to_user raises.
SwitchExitRaise(p) ==
    /\ blocks[p] # <<>>
    /\ SwitchOnRaise(p)
    /\ blocks' = [blocks EXCEPT ![p] = SubSeq(@, 1, Len(@) - 1)]
    /\ lastAuth' = [NoAuthOp EXCEPT !.op = "exit_raise", !.provider = p,
                                    !.key = blocks[p][Len(blocks[p])]]
    /\ UNCHANGED <<token_cache, admin_user, client_id, issued, tokenPosts, outsideAuth>>

\* auth.refresh_token() on a pt_http_client provider: the class defines no
\* refresh_token and no __getattr__ (its methods are __init__, _fetch_token,
\* auth_flow, _update_user, switch_to_user, _switch_to_admin), so the
\* attribute lookup raises AttributeError and nothing else happens.
RefreshMissing(p) ==
    /\ lastAuth' = [op |-> "refresh", provider |-> p, key |-> current_user_key[p],
                    cached |-> token_cache[current_user_key[p]] # NoToken,
                    posted |-> FALSE, error |-> "AttributeError",
                    header |-> NoToken,
                    before |-> token_cache[current_user_key[p]],
                    sends |-> 0, response |-> 0]
    /\ UNCHANGED <<token_cache, username, password, current_user_key, admin_user, client_id,
                   blocks, issued, tokenPosts, outsideAuth>>

\* ------------------------------------------- auth: concurrent callers

\* Threads of one process, each sending requests through the provider of the
\* same number; the providers share BearerTokenAuth._token_cache. A thread
\* can be switched between any two of the steps below.
Callers == Providers

RaceInit ==
    /\ pc = [c \in Callers |-> "idle"]
    /\ fetched = [c \in Callers |-> NoToken]
    /\ authorization = [c \in Callers |-> NoToken]
    /\ posts = [c \in Callers |-> 0]
    /\ calls = [c \in Callers |-> 0]
    /\ lastStored = NoToken

\* httpx calls auth_flow for a new request of the caller.
StartCall(c) ==
    /\ pc[c] \in {"idle", "done", "failed"}
    /\ calls[c] < MaxCalls
    /\ calls' = [calls EXCEPT ![c] = @ + 1]
    /\ pc' = [pc EXCEPT ![c] = "check"]
    /\ fetched' = [fetched EXCEPT ![c] = NoToken]
    /\ authorization' = [authorization EXCEPT ![c] = NoToken]
    /\ posts' = [posts EXCEPT ![c] = 0]
    /\ UNCHANGED <<lastStored, token_cache, issued, tokenPosts, outsideRace>>

\* if self._current_user_key in self._token_cache:
CheckCache(c) ==
    /\ pc[c] = "check"
    /\ pc' = [pc EXCEPT ![c] = IF token_cache[current_user_key[c]] # NoToken
                               THEN "hit" ELSE "post"]
    /\ UNCHANGED <<fetched, authorization, posts, calls, lastStored,
                   token_cache, issued, tokenPosts, outsideRace>>

\* return self._token_cache[self._current_user_key]
ReadCache(c) ==
    /\ pc[c] = "hit"
    /\ fetched' = [fetched EXCEPT ![c] = token_cache[current_user_key[c]]]
    /\ pc' = [pc EXCEPT ![c] = "header"]
    /\ UNCHANGED <<authorization, posts, calls, lastStored,
                   token_cache, issued, tokenPosts, outsideRace>>

\* httpx.post(...), raise_for_status(), token_data["access_token"]
PostForToken(c, reply) ==
    /\ pc[c] = "post"
    /\ tokenPosts < MaxTokenPosts
    /\ tokenPosts' = tokenPosts + 1
    /\ posts' = [posts EXCEPT ![c] = @ + 1]
    /\ IF reply = "ok"
       THEN /\ fetched' = [fetched EXCEPT ![c] = IssueToken(client_id[c], username[c], password[c])]
            /\ issued' = [issued EXCEPT ![<<username[c], password[c]>>] = @ + 1]
            /\ pc' = [pc EXCEPT ![c] = "store"]
       ELSE /\ pc' = [pc EXCEPT ![c] = "failed"]
            /\ UNCHANGED <<fetched, issued>>
    /\ UNCHANGED <<authorization, calls, lastStored, token_cache, outsideRace>>

\* A store that keeps the entry another caller has written meanwhile.
StoreIfAbsent(cache, key, tok) ==
    IF cache[key] # NoToken THEN cache ELSE [cache EXCEPT ![key] = tok]

\* self._token_cache[self._current_user_key] = token
StoreOp(cache, key, tok) == [cache EXCEPT ![key] = tok]

StoreToken(c) ==
    /\ pc[c] = "store"
    /\ token_cache' = StoreOp(token_cache, current_user_key[c], fetched[c])
    /\ lastStored' = fetched[c]
    /\ pc' = [pc EXCEPT ![c] = "header"]
    /\ UNCHANGED <<fetched, authorization, posts, calls, issued, tokenPosts,
                   outsideRace>>

\* request.headers["Authorization"] = f"Bearer {token}"; yield request
SetHeader(c) ==
    /\ pc[c] = "header"
    /\ authorization' = [authorization EXCEPT ![c] = fetched[c]]
    /\ pc' = [pc EXCEPT ![c] = "done"]
    /\ UNCHANGED <<fetched, posts, calls, lastStored, token_cache, issued,
                   tokenPosts, outsideRace>>

\* ------------------------------------------------ auth: the core provider

\* core/auth/bearer.py: instances of BearerTokenAuth, each constructed with
\* the same credentials; the class has no switch_to_user.
CoreProviders == {1, 2}
CoreCredentials == AdminIdentity

\* core BearerTokenAuth.__init__: self._token = None
CoreInit == token = [p \in CoreProviders |-> NoToken]

\* core BearerTokenAuth._fetch_token: always a POST; raise_for_status and the
\* access_token lookup raise, otherwise the token of the answer is returned.
CoreFetchToken(reply) ==
    IF reply = "ok"
    THEN [posted |-> TRUE, error |-> "none",
          token |-> IssueToken(DefaultClientId, CoreCredentials[1], CoreCredentials[2])]
    ELSE [posted |-> TRUE,
          error |-> IF reply = "http_error" THEN "HTTPStatusError" ELSE "KeyError",
          token |-> NoToken]

\* The bookkeeping of one core operation whose fetch result is r (r.posted
\* FALSE when it made none).
CoreRecord(op, p, r, status) ==
    /\ tokenPosts' = IF r.posted THEN tokenPosts + 1 ELSE tokenPosts
    /\ issued' = IF r.posted /\ r.error = "none"
                 THEN [issued EXCEPT ![CoreCredentials] = @ + 1]
                 ELSE issued
    /\ lastAuth' = [op |-> op, provider |-> p, key |-> CoreCredentials,
                    cached |-> token[p] # NoToken,
                    posted |-> r.posted, error |-> r.error,
                    header |-> IF r.error = "none" THEN token'[p] ELSE NoToken,
                    before |-> token[p],
                    sends |-> IF op = "core_auth" /\ r.error = "none" THEN 1 ELSE 0,
                    response |-> IF op = "core_auth" /\ r.error = "none"
                                 THEN status ELSE 0]
    /\ UNCHANGED outsideCore

\* core BearerTokenAuth.auth_flow: fetch when self._token is None, then set
\* the header from self._token.
CoreAuthFlow(p, reply, status) ==
    LET r == IF token[p] = NoToken THEN CoreFetchToken(reply)
             ELSE [posted |-> FALSE, error |-> "none", token |-> token[p]]
    IN  /\ r.posted => tokenPosts < MaxTokenPosts
        /\ token' = IF r.error = "none" THEN [token EXCEPT ![p] = r.token] ELSE token
        /\ CoreRecord("core_auth", p, r, status)

\* core BearerTokenAuth.refresh_token: self._token = self._fetch_token()
RefreshTokenOp(p, reply) == CoreFetchToken(reply)

\* auth.refresh_token() on a core provider.
RefreshToken(p, reply) ==
    LET r == RefreshTokenOp(p, reply)
    IN  /\ r.posted => tokenPosts < MaxTokenPosts
        /\ token' = IF r.error = "none" THEN [token EXCEPT ![p] = r.token] ELSE token
        /\ CoreRecord("core_refresh", p, r, 0)

\* ------------------------------------------------------------ auth: claims

\* The identity a provider currently authenticates as.
CurrentIdentity(p) == <<username[p], password[p], current_user_key[p]>>
AdminState(p) == <<admin_user[p][1], admin_user[p][2], admin_user[p]>>

\* C1: with no refresh in between, at most one token fetch succeeds per
\* identity, whichever provider instance asks: the endpoint issues at most one
\* token for an identity, a cached entry is the token issued for that identity,
\* and an authenticate that finds its identity cached makes no call to the
\* token endpoint and attaches exactly the cached token.
C1_OneFetchPerIdentity ==
    /\ \A i \in Identities : issued[i] <= 1
    /\ \A i \in Identities :
           token_cache[i] # NoToken =>
               token_cache[i] = [client_id |-> DefaultClientId, username |-> i[1],
                                 password |-> i[2], n |-> 1]
    /\ (lastAuth.op = "auth" /\ lastAuth.cached) =>
           /\ ~lastAuth.posted
           /\ lastAuth.error = "none"
           /\ lastAuth.header # NoToken
           /\ lastAuth.header = token_cache[lastAuth.key]

\* A cache hit of provider 2 under a switched-to identity, after a fetch.
C1_Witness ==
    /\ lastAuth.op = "auth" /\ lastAuth.cached /\ lastAuth.provider = 2
    /\ lastAuth.key \in SwitchIdentities
    /\ tokenPosts >= 1 /\ issued[lastAuth.key] = 1

\* C2: after a switch_to_user block ends, on every exit path, the provider's
\* username, password and cache key are those of the admin identity.
C2_AdminRestoredOnEveryExit ==
    lastAuth.op \in {"exit", "exit_raise"} =>
        CurrentIdentity(lastAuth.provider) = AdminState(lastAuth.provider)

\* The token a provider holds for its current identity: the shared cache's
\* entry for a pt_http_client provider, self._token for a core one.
HeldToken(op, p, key) ==
    IF op \in {"core_auth", "core_refresh"} THEN token[p] ELSE token_cache[key]

\* C13: a refresh always posts to the token endpoint, also when a token is
\* held already, and when the endpoint answers with a token, that new token
\* replaces the held one; a later request that finds a token held carries
\* exactly the held token.
C13_RefreshAlwaysFetchesAndOverwrites ==
    /\ lastAuth.op \in {"refresh", "core_refresh"} =>
           /\ lastAuth.posted
           /\ lastAuth.error = "none" =>
                  /\ lastAuth.header # NoToken
                  /\ lastAuth.header # lastAuth.before
                  /\ HeldToken(lastAuth.op, lastAuth.provider, lastAuth.key)
                         = lastAuth.header
    /\ (lastAuth.op \in {"auth", "core_auth"} /\ lastAuth.cached) =>
           /\ ~lastAuth.posted
           /\ lastAuth.header
                  = HeldToken(lastAuth.op, lastAuth.provider, lastAuth.key)

\* C14: when the token endpoint answers with an error status or without an
\* access_token, authenticate raises, the request is not sent, the cache is
\* exactly what it was (no entry for the identity), and an authenticate that
\* finds no entry for its identity posts to the token endpoint (again).
C14_FailedFetchLeavesCacheAndSendsNothing ==
    /\ []((lastAuth.op = "auth" /\ lastAuth.error # "none") =>
             /\ lastAuth.posted
             /\ lastAuth.sends = 0
             /\ lastAuth.header = NoToken
             /\ token_cache[lastAuth.key] = NoToken)
    /\ []((lastAuth.op = "auth" /\ ~lastAuth.cached) => lastAuth.posted)
    /\ [][(lastAuth'.op = "auth" /\ lastAuth'.error # "none") =>
              token_cache' = token_cache]_vars

\* A second failed fetch for an identity whose first fetch failed.
C14_Witness ==
    /\ lastAuth.op = "auth" /\ lastAuth.error = "KeyError"
    /\ tokenPosts = 2 /\ \A i \in Identities : issued[i] = 0
    /\ lastAuth.key = AdminIdentity

\* The identity of the innermost switch_to_user block a provider is in.
InnermostBlock(p) == blocks[p][Len(blocks[p])]

\* C18: while a provider is inside switch_to_user blocks, its identity is the
\* one of the innermost block that is still open, also after a block nested
\* in that one has ended, and a request made there is authenticated under
\* that identity, with a token issued for its credentials.
C18_IdentityIsInnermostOpenBlock ==
    \A p \in Providers :
        blocks[p] # <<>> =>
            /\ CurrentIdentity(p) =
                   <<InnermostBlock(p)[1], InnermostBlock(p)[2], InnermostBlock(p)>>
            /\ (lastAuth.op = "auth" /\ lastAuth.provider = p) =>
                   /\ lastAuth.key = InnermostBlock(p)
                   /\ lastAuth.header # NoToken =>
                          /\ lastAuth.header.username = InnermostBlock(p)[1]
                          /\ lastAuth.header.password = InnermostBlock(p)[2]

\* Every caller is between two requests.
AllQuiet == \A c \in Callers : pc[c] \in {"idle", "done", "failed"}

\* C19: callers that authenticate concurrently under one identity make at
\* most one POST per request each; a request that is sent carries a token the
\* endpoint issued for that identity; once all have finished and a token was
\* stored, the identity's entry is the token stored last and no other
\* identity has an entry; a request that finds the entry makes no POST.
C19_ConcurrentFetchesLastWriteWins ==
    /\ [](\A c \in Callers :
             /\ posts[c] <= 1
             /\ pc[c] = "done" =>
                    /\ authorization[c] # NoToken
                    /\ authorization[c].username = username[c]
                    /\ authorization[c].password = password[c]
                    /\ authorization[c].n \in 1..issued[current_user_key[c]]
             /\ pc[c] = "hit" => posts[c] = 0)
    /\ []((AllQuiet /\ lastStored # NoToken) =>
             /\ token_cache[AdminIdentity] = lastStored
             /\ \A i \in Identities \ {AdminIdentity} : token_cache[i] = NoToken)
    /\ [][\A c \in Callers :
              (pc[c] = "check" /\ token_cache[current_user_key[c]] # NoToken
                 /\ pc'[c] # "check") => (pc'[c] = "hit" /\ tokenPosts' = tokenPosts)]_vars

\* Both callers fetched: two tokens were issued, each caller sent its own,
\* and the entry is the one stored last.
C19_Witness ==
    /\ \A c \in Callers : pc[c] = "done" /\ posts[c] = 1 /\ calls[c] = 1
    /\ issued[AdminIdentity] = 2
    /\ authorization[1] # authorization[2]
    /\ token_cache[AdminIdentity] = lastStored
    /\ authorization[1] = lastStored

\* C20: an identity's cache entry, once there, stays as it is through every
\* authenticate, every switch_to_user entry and exit and every API answer,
\* and no further token is issued for the identity; a request that is sent is
\* sent once and its answer, 401 included, is what the caller gets.
C20_CachedEntryNeverReplaced ==
    /\ [][\A i \in Identities :
              token_cache[i] # NoToken =>
                  (token_cache'[i] = token_cache[i] /\ issued'[i] = issued[i])]_vars
    /\ []((lastAuth.op = "auth" /\ lastAuth.error = "none") =>
             /\ lastAuth.sends = 1
             /\ lastAuth.response \in ApiStatuses
             /\ lastAuth.cached =>
                    (~lastAuth.posted /\ lastAuth.header = lastAuth.before))

\* A request under a cached identity is answered 401.
C20_Witness ==
    /\ lastAuth.op = "auth" /\ lastAuth.cached /\ lastAuth.response = 401
    /\ lastAuth.sends = 1 /\ ~lastAuth.posted
    /\ token_cache[lastAuth.key] = lastAuth.before
    /\ lastAuth.before # NoToken

\* C21: under the client-credentials grant the cache is keyed by the client
\* id: a request carries a token that was issued to its provider's client
\* id, a provider finds an entry exactly when a provider of its client id has
\* fetched, and it fetches its own otherwise.
C21_ClientCredentialsKeyedByClientId ==
    (lastAuth.op = "auth" /\ lastAuth.key = ClientCredentialsIdentity) =>
        /\ lastAuth.header # NoToken =>
               lastAuth.header.client_id = client_id[lastAuth.provider]
        /\ lastAuth.cached =>
               lastAuth.before.client_id = client_id[lastAuth.provider]

\* C25: every entry of the token cache holds a token the endpoint issued for
\* the username and password of the entry's key, in every interleaving of
\* authenticating threads with switch_to_user entries and exits on the
\* providers they use.
C25_CacheEntryIssuedForItsKey ==
    \A i \in Identities :
        token_cache[i] # NoToken =>
            /\ token_cache[i].username = i[1]
            /\ token_cache[i].password = i[2]

\* ---------------------------------------------------- client: the domain

HandlerKinds == {"Allure", "Curl", "Logging"}
Handler(kind, id) == [kind |-> kind, id |-> id]
NoHandler == Handler("-", 0)

\* The handlers HttpClient.__init__ registers when it is given none.
DefaultHandlers == <<Handler("Allure", 1), Handler("Curl", 2), Handler("Logging", 3)>>

\* The handlers argument of HttpClient(...): absent (None) or a list.
CtorHandlers == {[given |-> FALSE, list |-> <<>>],
                 [given |-> TRUE, list |-> <<>>],
                 [given |-> TRUE, list |-> <<Handler("Logging", 1), Handler("Curl", 2)>>]}

\* self._client = None
NoClient == [id |-> 0, request |-> <<>>, response |-> <<>>]

Statuses == {200, 404, 500}
Bodies == {"json", "text", "binary"}

\* What the transport answers to one request: a response, or no response at
\* all (the connection fails).
NoReply == [status |-> 0, body |-> "ConnectError"]
Replies == [status : Statuses, body : Bodies] \cup {NoReply}

\* The keyword arguments httpx.Client.request accepts besides method and url.
HttpxRequestOptions == {"content", "data", "files", "json", "params", "headers",
                        "cookies", "auth", "follow_redirects", "timeout",
                        "extensions"}

\* The outgoing request as the hooks see it: whether its body decodes as
\* UTF-8 and whether a cURL command can be generated from it.
Requests == {[utf8 |-> TRUE, curl_ok |-> TRUE],
             [utf8 |-> TRUE, curl_ok |-> FALSE],
             [utf8 |-> FALSE, curl_ok |-> FALSE]}
PlainRequest == [utf8 |-> TRUE, curl_ok |-> TRUE]

\* retry=None
NoRetry == [kind |-> "none", stop |-> 1, on_status |-> {},
            on_exception |-> FALSE, reraise |-> FALSE]
\* retry(stop=stop_after_attempt(n), wait=wait_fixed(..),
\*       retry=retry_if_result(is_404_response))
ResultRetry(n) == [kind |-> "tenacity", stop |-> n, on_status |-> {404, 500},
                   on_exception |-> FALSE, reraise |-> FALSE]
\* retry(stop=stop_after_attempt(n), wait=wait_fixed(..), reraise=True)
ExceptionRetry(n) == [kind |-> "tenacity", stop |-> n, on_status |-> {},
                      on_exception |-> TRUE, reraise |-> TRUE]

\* ---------------------------------------------------- client: the hooks

\* AllureHandler.request_hook: request.content.decode("utf-8") is outside
\* any try; json.JSONDecodeError is the only exception it catches.
AllureRequestHook(req) == IF req.utf8 THEN "ok" ELSE "raised"

\* AllureHandler.response_hook: response.json() on a body that is no UTF-8
\* raises UnicodeDecodeError, which is no json.JSONDecodeError.
AllureResponseHook(resp) == IF resp.body = "binary" THEN "raised" ELSE "ok"

\* CurlHandler.request_hook: a failure to generate the command is caught and
\* attached as a "cURL Generation Error" record.
CurlRequestHook(req) == IF req.curl_ok THEN "ok" ELSE "error_record"

\* CurlHandler.response_hook: pass.
CurlResponseHook(resp) == "ok"

\* LoggingHandler.request_hook: two log lines.
LoggingRequestHook(req) == "ok"

\* LoggingHandler.response_hook: response.json() as in AllureHandler.
LoggingResponseHook(resp) == IF resp.body = "binary" THEN "raised" ELSE "ok"

\* One bound callback, called with the request or the response.
CallHook(h, ev, req, resp) ==
    IF ev = "request"
    THEN CASE h.kind = "Allure" -> AllureRequestHook(req)
           [] h.kind = "Curl" -> CurlRequestHook(req)
           [] OTHER -> LoggingRequestHook(req)
    ELSE CASE h.kind = "Allure" -> AllureResponseHook(resp)
           [] h.kind = "Curl" -> CurlResponseHook(resp)
           [] OTHER -> LoggingResponseHook(resp)

HookEvent(h, ev, res) == [ev |-> ev, h |-> h, res |-> res, status |-> 0]
TransportEvent(reply) ==
    [ev |-> "transport", h |-> NoHandler,
     res |-> IF reply = NoReply THEN "raised" ELSE "ok", status |-> reply.status]

\* The session calls the callbacks bound to an event one after the other, in
\* list order; a callback that raises ends the loop.
RECURSIVE RunHooks(_, _, _, _, _)
RunHooks(hooks, i, ev, req, resp) ==
    IF i > Len(hooks) THEN <<>>
    ELSE LET res == CallHook(hooks[i], ev, req, resp)
         IN  IF res = "raised" THEN <<HookEvent(hooks[i], ev, res)>>
             ELSE <<HookEvent(hooks[i], ev, res)>> \o RunHooks(hooks, i + 1, ev, req, resp)

Raised(events) == events # <<>> /\ events[Len(events)].res = "raised"

\* ------------------------------------------------ hooks: _truncate_body

\* AbstractHookHandler._truncate_body: max_body_length and truncate_message
\* ("... [" + 15 Cyrillic letters and a space + "]", as code points).
max_body_length == 40000
truncate_message == <<46, 46, 46, 32, 91, 1044, 1072, 1085, 1085, 1099, 1077, 32,
                      1086, 1073, 1088, 1077, 1079, 1072, 1085, 1099, 93>>

\* A Python value handed to a hook: its type and what determines the
\* characters of its string form (a seed and their number).
DataTypes == {"str", "dict", "list", "bytes", "tuple", "int"}
Value(type, seed, n) == [type |-> type, seed |-> seed, len |-> n]
NotCalled == Value("-", 0, 0)

\* A str built by slicing and concatenation, as its characters (code points).
Text(chars) == [type |-> "str", chars |-> chars]

\* The lengths explored: short, and around max_body_length.
BodyLengths == {2, max_body_length - 1, max_body_length, max_body_length + 1,
                max_body_length + MaxExcess}
BodySeeds == {0, 1}
DataInputs == {Value(t, sd, n) : t \in DataTypes, sd \in BodySeeds, n \in BodyLengths}

\* str(data): the characters of the value's string form, which opens with
\* the bracket of its type and goes on with letters (digits for an int) that
\* differ with the seed; for a str, the string itself.
Str(v) ==
    [i \in 1..v.len |->
        IF i = 1 /\ v.type = "dict" THEN 123
        ELSE IF i = 1 /\ v.type = "list" THEN 91
        ELSE IF i = 1 /\ v.type = "tuple" THEN 40
        ELSE IF v.type = "int" THEN 48 + ((i + v.seed) % 10)
        ELSE 97 + ((i + v.seed) % 3)]

\* A _truncate_body that also cuts a body of exactly max_body_length characters.
TruncateBodyInclusive(v) ==
    IF v.type \in {"dict", "list", "str"} /\ Len(Str(v)) >= max_body_length
    THEN Text(SubSeq(Str(v), 1, max_body_length) \o truncate_message)
    ELSE v

\* AbstractHookHandler._truncate_body(data)
TruncateBody(v) ==
    IF v.type \in {"dict", "list", "str"}
    THEN LET data_str == Str(v)
         IN  IF Len(data_str) > max_body_length
             THEN Text(SubSeq(data_str, 1, max_body_length) \o truncate_message)
             ELSE v
    ELSE v

BodyInit == data = NotCalled /\ shown = NotCalled

\* A handler calls self._truncate_body(body).
Truncate ==
    /\ data # NotCalled /\ shown = NotCalled
    /\ shown' = TruncateBody(data)
    /\ UNCHANGED <<data, outsideBody>>

\* ------------------------------------------------- client: the session

\* HttpClient.__init__: handlers or [AllureHandler(), CurlHandler(), LoggingHandler()]
InitialHandlers(arg) ==
    IF arg.given /\ arg.list # <<>> THEN arg.list ELSE DefaultHandlers

\* HttpClient._update_client_hooks: with a live session, both event lists are
\* rebuilt from the handler list, in its order.
UpdateClientHooks(cl, hs) ==
    IF cl # NoClient
    THEN [cl EXCEPT !.request = [i \in 1..Len(hs) |-> hs[i]],
                    !.response = [i \in 1..Len(hs) |-> hs[i]]]
    ELSE cl

\* An add_handler that appends without rebuilding the session's hooks.
AddHandlerNoRebind(hs, cl, h) == [handlers |-> Append(hs, h), client |-> cl]

\* HttpClient.add_handler: append, then rebuild the hooks of a live session.
AddHandlerOp(hs, cl, h) ==
    [handlers |-> Append(hs, h),
     client |-> IF cl # NoClient THEN UpdateClientHooks(cl, Append(hs, h)) ELSE cl]

\* A _setup_client that builds a new session on every call.
SetupClientAlways(cl, cs, hs) ==
    [client |-> UpdateClientHooks([NoClient EXCEPT !.id = Len(cs) + 1], hs),
     closes |-> Append(cs, 0)]

\* A _setup_client that, after a close, takes the closed session up again.
SetupClientReuseClosed(cl, cs, hs) ==
    IF cl = NoClient
    THEN IF cs # <<>>
         THEN [client |-> UpdateClientHooks([NoClient EXCEPT !.id = Len(cs)], hs),
               closes |-> cs]
         ELSE [client |-> UpdateClientHooks([NoClient EXCEPT !.id = 1], hs),
               closes |-> <<0>>]
    ELSE [client |-> cl, closes |-> cs]

\* HttpClient._setup_client: a session is created only when there is none;
\* httpx.Client(...) starts with no hooks, _update_client_hooks binds them.
SetupClient(cl, cs, hs) ==
    IF cl = NoClient
    THEN [client |-> UpdateClientHooks([NoClient EXCEPT !.id = Len(cs) + 1], hs),
          closes |-> Append(cs, 0)]
    ELSE [client |-> cl, closes |-> cs]

\* A close that closes the session and keeps the reference to it.
CloseClientKeepRef(cl, cs) ==
    IF cl # NoClient
    THEN [client |-> cl, closes |-> [cs EXCEPT ![cl.id] = @ + 1]]
    ELSE [client |-> cl, closes |-> cs]

\* HttpClient.close: close the live session and forget it.
CloseClient(cl, cs) ==
    IF cl # NoClient
    THEN [client |-> NoClient, closes |-> [cs EXCEPT ![cl.id] = @ + 1]]
    ELSE [client |-> cl, closes |-> cs]

\* An __exit__ that closes only when the block ended without an exception.
ExitOpNormalOnly(cl, cs, raised) ==
    IF raised THEN [client |-> cl, closes |-> cs] ELSE CloseClient(cl, cs)

\* HttpClient.__exit__: self.close(), whatever the exception arguments.
ExitOp(cl, cs, raised) == CloseClient(cl, cs)

\* A class without __del__: destruction leaves the session as it is.
DelOpNothing(cl, cs) == [client |-> cl, closes |-> cs]

\* HttpClient.__del__: self.close()
DelOp(cl, cs) == CloseClient(cl, cs)

\* ------------------------------------------------ client: the pipeline

\* The keyword arguments _send hands to client.request: headers, params and
\* json by name, and whatever else the caller passed (**kwargs).
RequestKwargs(call) == {"headers", "params", "json"} \cup call.kwargs

\* do_request, that is client.request(...) on the session: a keyword the
\* session does not know is a TypeError of the call itself; otherwise the
\* request callbacks, the transport, the response callbacks.
DoRequest(cl, call, req, reply) ==
    IF ~(RequestKwargs(call) \subseteq HttpxRequestOptions)
    THEN [events |-> <<>>, exc |-> "TypeError", reply |-> NoReply]
    ELSE LET rq == RunHooks(cl.request, 1, "request", req, NoReply)
             tr == rq \o <<TransportEvent(reply)>>
             rs == RunHooks(cl.response, 1, "response", req, reply)
         IN  IF Raised(rq)
             THEN [events |-> rq, exc |-> "UnicodeDecodeError", reply |-> NoReply]
             ELSE IF reply = NoReply
             THEN [events |-> tr, exc |-> "ConnectError", reply |-> NoReply]
             ELSE IF Raised(rs)
             THEN [events |-> tr \o rs, exc |-> "UnicodeDecodeError", reply |-> NoReply]
             ELSE [events |-> tr \o rs, exc |-> "none", reply |-> reply]

\* retry(do_request)(): the caller's tenacity policy around do_request. The
\* k-th attempt is retried when the policy's predicate accepts its outcome;
\* at the stop the policy raises RetryError, or with reraise=True the last
\* attempt's own exception.
RECURSIVE Retrying(_, _, _, _, _, _)
Retrying(policy, k, cl, call, req, script) ==
    LET out == DoRequest(cl, call, req, script[k])
        again == IF out.exc = "none" THEN out.reply.status \in policy.on_status
                 ELSE policy.on_exception
    IN  IF ~again THEN out @@ [attempts |-> 1]
        ELSE IF k >= policy.stop
        THEN [events |-> out.events,
              exc |-> IF policy.reraise /\ out.exc # "none" THEN out.exc
                      ELSE "RetryError",
              reply |-> out.reply, attempts |-> 1]
        ELSE LET rest == Retrying(policy, k + 1, cl, call, req, script)
             IN  [rest EXCEPT !.events = out.events \o rest.events,
                              !.attempts = rest.attempts + 1]

\* A _send that makes one more request after the policy has given up.
SendRequestExtraAttempt(cl, policy, call, req, script) ==
    IF policy.kind = "none"
    THEN DoRequest(cl, call, req, script[1]) @@ [attempts |-> 1]
    ELSE LET r == Retrying(policy, 1, cl, call, req, script)
             x == DoRequest(cl, call, req, script[1])
         IN  IF r.exc = "RetryError"
             THEN [x EXCEPT !.events = r.events \o x.events]
                  @@ [attempts |-> r.attempts + 1]
             ELSE r

\* The last line of HttpClient._send:
\* retry(do_request)() if retry else do_request()
SendRequest(cl, policy, call, req, script) ==
    IF policy.kind = "none"
    THEN DoRequest(cl, call, req, script[1]) @@ [attempts |-> 1]
    ELSE Retrying(policy, 1, cl, call, req, script)

\* What an exception carries for the caller: nothing, or for RetryError the
\* status of the last attempt.
NoDetail == [expected |-> 0, actual |-> 0, body |-> "none"]

\* What the caller of _send gets: the response, or the exception.
Outcome(r) ==
    IF r.exc = "none"
    THEN [kind |-> "return", exc |-> "none", status |-> r.reply.status,
          body |-> r.reply.body, detail |-> NoDetail]
    ELSE [kind |-> "raise", exc |-> r.exc, status |-> 0, body |-> "none",
          detail |-> IF r.exc = "RetryError"
                     THEN [NoDetail EXCEPT !.actual = r.reply.status]
                     ELSE NoDetail]

TransportCalls(events) ==
    Cardinality({i \in 1..Len(events) : events[i].ev = "transport"})

\* ------------------------------------------------- client: the actions

\* The ways _send is called: with the options the session knows only, or
\* with an option of the typed pipeline among its **kwargs.
PlainCall == [kwargs |-> {}, json |-> FALSE, expected_status |-> 0]
ExpectCall(e) == [kwargs |-> {"expected_status"}, json |-> FALSE, expected_status |-> e]
ModelCall == [kwargs |-> {"request_model"}, json |-> FALSE, expected_status |-> 0]
ModelAndJsonCall == [kwargs |-> {"request_model"}, json |-> TRUE, expected_status |-> 0]
ResponseModelCall == [kwargs |-> {"response_model"}, json |-> FALSE, expected_status |-> 0]
TypedCalls == {ExpectCall(e) : e \in {200, 404}}
                  \cup {ModelCall, ModelAndJsonCall, ResponseModelCall}

\* The server's answers to the attempts of one call: f[i] is the status of the
\* i-th answer, 0 for a connection that fails.
Script(f, body) ==
    [i \in DOMAIN f |->
        IF f[i] = 0 THEN NoReply ELSE [status |-> f[i], body |-> body]]
ConstScript(reply, n) == [i \in 1..n |-> reply]

NoCall == [op |-> "none", policy |-> NoRetry, call |-> PlainCall,
           req |-> PlainRequest, script |-> <<>>,
           hooks |-> <<>>, events |-> <<>>, attempts |-> 0,
           outcome |-> [kind |-> "none", exc |-> "none", status |-> 0,
                        body |-> "none", detail |-> NoDetail],
           had_client |-> FALSE, changed |-> FALSE]

\* The client object has not been destroyed: __del__ has not run.
Alive == lastCall.op # "del"

\* HttpClient.__init__
ClientInit(arg) ==
    /\ handlers = InitialHandlers(arg)
    /\ client = NoClient
    /\ closes = <<>>
    /\ adds = 0
    /\ inWith = FALSE
    /\ lastCall = NoCall

\* client.add_handler(<a new handler of the kind>)
AddHandler(kind) ==
    LET r == AddHandlerOp(handlers, client, Handler(kind, Len(handlers) + 1))
    IN  /\ Alive
        /\ adds < MaxAdds
        /\ handlers' = r.handlers
        /\ client' = r.client
        /\ adds' = adds + 1
        /\ lastCall' = [NoCall EXCEPT !.op = "add_handler",
                                      !.had_client = client # NoClient,
                                      !.changed = TRUE]
        /\ UNCHANGED <<closes, inWith, outsideClient>>

\* client.__enter__(), called by the with statement on entry of its block.
Enter ==
    LET s == SetupClient(client, closes, handlers)
    IN  /\ Alive
        /\ ~inWith
        /\ client = NoClient => Len(closes) < MaxSessions
        /\ inWith' = TRUE
        /\ client' = s.client
        /\ closes' = s.closes
        /\ lastCall' = [NoCall EXCEPT !.op = "enter",
                                      !.had_client = client # NoClient,
                                      !.changed = (s.client # client)]
        /\ UNCHANGED <<handlers, adds, outsideClient>>

\* client.close()
Close ==
    LET s == CloseClient(client, closes)
    IN  /\ Alive
        /\ client' = s.client
        /\ closes' = s.closes
        /\ lastCall' = [NoCall EXCEPT !.op = "close",
                                      !.had_client = client # NoClient,
                                      !.changed = (s.client # client \/ s.closes # closes)]
        /\ UNCHANGED <<handlers, adds, inWith, outsideClient>>

\* client.__exit__(exc_type, exc_val, exc_tb), called by the with statement
\* when its block is left: normally (raised = FALSE) or by an exception of
\* the body (raised = TRUE), which __exit__ does not swallow.
Exit(raised) ==
    LET s == ExitOp(client, closes, raised)
    IN  /\ Alive
        /\ inWith
        /\ inWith' = FALSE
        /\ client' = s.client
        /\ closes' = s.closes
        /\ lastCall' = [NoCall EXCEPT !.op = IF raised THEN "exit_raise" ELSE "exit",
                                      !.had_client = client # NoClient,
                                      !.changed = (s.client # client \/ s.closes # closes)]
        /\ UNCHANGED <<handlers, adds, outsideClient>>

\* The last reference to the client goes away and Python calls __del__; a
\* with-block holds a reference, so this happens outside of one. Nothing can
\* be called on the object afterwards.
Del ==
    LET s == DelOp(client, closes)
    IN  /\ Alive
        /\ ~inWith
        /\ client' = s.client
        /\ closes' = s.closes
        /\ lastCall' = [NoCall EXCEPT !.op = "del",
                                      !.had_client = client # NoClient,
                                      !.changed = (s.client # client \/ s.closes # closes)]
        /\ UNCHANGED <<handlers, adds, inWith, outsideClient>>

\* client._send(...), which get, post, put, patch and delete call with their
\* arguments unchanged: set the session up, then make the request.
Send(policy, call, req, script) ==
    \E s \in {SetupClient(client, closes, handlers)} :
    \E r \in {SendRequest(s.client, policy, call, req, script)} :
        /\ Alive
        /\ client = NoClient => Len(closes) < MaxSessions
        /\ client' = s.client
        /\ closes' = s.closes
        /\ lastCall' = [op |-> "send", policy |-> policy, call |-> call,
                        req |-> req, script |-> script,
                        hooks |-> handlers,
                        events |-> r.events, attempts |-> r.attempts,
                        outcome |-> Outcome(r),
                        had_client |-> client # NoClient,
                        changed |-> (s.client # client)]
        /\ UNCHANGED <<handlers, adds, inWith, outsideClient>>

\* The retry policies of the repository's test and example, for n attempts.
RetryPolicies(n) == {ResultRetry(n), ExceptionRetry(n)}

\* A call without a retry policy, against every answer.
SendOnce ==
    \E reply \in Replies, req \in {r \in Requests : r.curl_ok = r.utf8} :
        Send(NoRetry, PlainCall, req, <<reply>>)

\* A call under a retry policy, against every run of answers.
SendRetry ==
    \E policy \in RetryPolicies(MaxAttempts),
       f \in [1..MaxAttempts -> {200, 404, 0}], body \in {"json", "binary"} :
        Send(policy, PlainCall, PlainRequest, Script(f, body))

\* A call that passes an option of the typed pipeline.
SendTyped ==
    \E policy \in {NoRetry, ExceptionRetry(MaxAttempts)}, call \in TypedCalls,
       reply \in [status : {200, 404}, body : {"json", "text"}] :
        Send(policy, call, PlainRequest, ConstScript(reply, policy.stop))

\* A call with an expected status under the test's retry policy, against
\* every run of retried and accepted answers.
SendTypedRetry ==
    \E e \in {200, 404}, f \in [1..MaxAttempts -> {200, 404}] :
        Send(ResultRetry(MaxAttempts), ExpectCall(e), PlainRequest, Script(f, "json"))

\* A call that exercises the hooks: every kind of request and of body.
SendHooked ==
    \E reply \in [status : {200, 404}, body : {"json", "binary"}], req \in Requests :
        Send(NoRetry, PlainCall, req, <<reply>>)

\* The same under the test's retry policy, with two attempts.
SendHookedRetry ==
    \E f \in [1..2 -> {200, 404}], body \in {"json", "binary"} :
        Send(ResultRetry(2), PlainCall, PlainRequest, Script(f, body))

\* ------------------------------------------- clients: shared objects

\* Several HttpClient objects of one process, and the two objects their
\* caller may hand to the constructors: one list of handlers (handlers=) and
\* one mapping of headers (default_headers=). A Python attribute holds a
\* reference, so lists and dicts are objects with an id.
Clients == {1, 2}
CallerList == 1
CallerMap == 1

HeaderNames == {"X-Env"}
Absent == "-"
HeaderValues == {"a", "b"}
EmptyMap == [k \in HeaderNames |-> Absent]

\* The mappings a caller builds before it constructs clients.
CallerMappings == {EmptyMap, [k \in HeaderNames |-> "a"]}

\* The handler lists a caller builds before it constructs clients.
CallerLists == {<<>>, <<Handler("Curl", 1)>>}

Unbuilt == [built |-> FALSE, given |-> FALSE, argList |-> <<>>, handlersRef |-> 0,
            initial |-> <<>>, own |-> <<>>, adds |-> 0,
            givenHeaders |-> FALSE, argHeaders |-> EmptyMap, headersRef |-> 0,
            session |-> NoClient, sessionHeaders |-> EmptyMap, closes |-> <<>>,
            ran |-> <<>>]
NoShareOp == [op |-> "none", c |-> 0]

ShareInit ==
    /\ lists = <<<<>>>>
    /\ maps = <<EmptyMap>>
    /\ clients = [c \in Clients |-> Unbuilt]
    /\ shareOp = NoShareOp

\* self._handlers = handlers or [AllureHandler(), CurlHandler(), LoggingHandler()]:
\* the very list object passed when it is passed and not empty, otherwise a
\* new list of the three default handlers.
HandlersOr(heap, given, ref) ==
    IF given /\ heap[ref] # <<>>
    THEN [lists |-> heap, ref |-> ref]
    ELSE [lists |-> Append(heap, InitialHandlers([given |-> given, list |-> <<>>])),
          ref |-> Len(heap) + 1]

\* A constructor that keeps the caller's mapping itself.
AliasHeaders(heap, given, ref) ==
    IF given /\ heap[ref] # EmptyMap
    THEN [maps |-> heap, ref |-> ref]
    ELSE [maps |-> Append(heap, EmptyMap), ref |-> Len(heap) + 1]

\* self.default_headers = default_headers.copy() if default_headers else {}:
\* always a new dict.
CopyHeaders(heap, given, ref) ==
    IF given /\ heap[ref] # EmptyMap
    THEN [maps |-> Append(heap, heap[ref]), ref |-> Len(heap) + 1]
    ELSE [maps |-> Append(heap, EmptyMap), ref |-> Len(heap) + 1]

\* HttpClient(base_url, handlers=..., default_headers=...): each argument is
\* the caller's object or is not passed.
Construct(c, passList, passMap) ==
    LET h == HandlersOr(lists, passList, CallerList)
        m == CopyHeaders(maps, passMap, CallerMap)
    IN  /\ ~clients[c].built
        /\ lists' = h.lists
        /\ maps' = m.maps
        /\ clients' = [clients EXCEPT ![c] =
               [Unbuilt EXCEPT !.built = TRUE,
                               !.given = passList,
                               !.argList = IF passList THEN lists[CallerList] ELSE <<>>,
                               !.handlersRef = h.ref,
                               !.initial = h.lists[h.ref],
                               !.own = h.lists[h.ref],
                               !.givenHeaders = passMap,
                               !.argHeaders = IF passMap THEN maps[CallerMap]
                                              ELSE EmptyMap,
                               !.headersRef = m.ref]]
        /\ shareOp' = [op |-> "init", c |-> c]
        /\ UNCHANGED outsideShare

\* How many add_handler calls the clients have made together.
TotalAdds == clients[1].adds + clients[2].adds

\* clients[c].add_handler(<a new handler of the kind>)
AddHandlerTo(c, kind) ==
    LET me == clients[c]
        h == Handler(kind, 10 * c + me.adds + 1)
        r == AddHandlerOp(lists[me.handlersRef], me.session, h)
    IN  /\ me.built
        /\ TotalAdds < MaxAdds
        /\ lists' = [lists EXCEPT ![me.handlersRef] = r.handlers]
        /\ clients' = [clients EXCEPT ![c].session = r.client,
                                      ![c].own = Append(@, h),
                                      ![c].adds = @ + 1]
        /\ shareOp' = [op |-> "add_handler", c |-> c]
        /\ UNCHANGED <<maps, outsideShare>>

\* A request of clients[c]: _setup_client builds the session on the first
\* one, with headers=self.default_headers and the hooks of self._handlers;
\* the request runs the session's request callbacks.
SendFrom(c) ==
    LET me == clients[c]
        s == SetupClient(me.session, me.closes, lists[me.handlersRef])
    IN  /\ me.built
        /\ clients' = [clients EXCEPT
               ![c].session = s.client,
               ![c].closes = s.closes,
               ![c].sessionHeaders = IF me.session = NoClient
                                     THEN maps[me.headersRef] ELSE @,
               ![c].ran = s.client.request]
        /\ shareOp' = [op |-> "send", c |-> c]
        /\ UNCHANGED <<lists, maps, outsideShare>>

\* The caller changes its own mapping: headers[name] = value, or del.
CallerSetsHeader(name, value) ==
    /\ maps[CallerMap][name] # value
    /\ maps' = [maps EXCEPT ![CallerMap][name] = value]
    /\ shareOp' = [op |-> "caller", c |-> 0]
    /\ UNCHANGED <<lists, clients, outsideShare>>

\* --------------------------------------------------- client: claims

Sent == lastCall.op = "send"

\* The answer of the server to the last attempt the call made.
LastAnswer == lastCall.script[lastCall.attempts]

\* No callback raised and no connection failed during the last call.
NothingRaised ==
    \A i \in 1..Len(lastCall.events) : lastCall.events[i].res # "raised"

\* C3: a call with an expected status E whose response has another status A
\* fails with UnexpectedStatusError carrying E, A and the body, and never
\* returns that response; when A equals E no status error is raised.
C3_StatusMismatchRaisesUnexpectedStatus ==
    (Sent /\ "expected_status" \in lastCall.call.kwargs) =>
        LET e == lastCall.call.expected_status
            a == LastAnswer
        IN  IF a.status # e
            THEN /\ lastCall.outcome.kind = "raise"
                 /\ lastCall.outcome.exc = "UnexpectedStatusError"
                 /\ lastCall.outcome.detail =
                        [expected |-> e, actual |-> a.status, body |-> a.body]
            ELSE lastCall.outcome.exc # "UnexpectedStatusError"

\* C4: a call with both a request model and a raw JSON payload fails with
\* ConflictingPayloadError before any transport call: no request is issued,
\* no hook fires and no retry attempt is made.
C4_ConflictingPayloadFailsFast ==
    (Sent /\ "request_model" \in lastCall.call.kwargs /\ lastCall.call.json) =>
        /\ lastCall.outcome.kind = "raise"
        /\ lastCall.outcome.exc = "ConflictingPayloadError"
        /\ lastCall.events = <<>>
        /\ lastCall.attempts <= 1

\* C5: a call with a response model whose response body cannot be parsed
\* fails with ResponseValidationError and returns no model; a call with no
\* response model returns the raw response unchanged.
C5_InvalidBodyRaisesResponseValidation ==
    /\ (Sent /\ "response_model" \in lastCall.call.kwargs
             /\ LastAnswer.body # "json") =>
           /\ lastCall.outcome.kind = "raise"
           /\ lastCall.outcome.exc = "ResponseValidationError"
    /\ (Sent /\ "response_model" \notin lastCall.call.kwargs
             /\ lastCall.outcome.kind = "return") =>
           /\ lastCall.outcome.status = LastAnswer.status
           /\ lastCall.outcome.body = LastAnswer.body

\* Every attempt the policy allows returns a response the policy retries on.
EveryAttemptRetryable ==
    /\ lastCall.policy.kind = "tenacity"
    /\ lastCall.policy.on_status # {}
    /\ lastCall.call.kwargs = {}
    /\ NothingRaised
    /\ \A k \in 1..lastCall.policy.stop :
           lastCall.script[k].status \in lastCall.policy.on_status

\* C6: under a retry policy of N attempts that retries on the returned
\* response, when every attempt returns a retryable response, the transport
\* call is made exactly N times, each attempt a fresh request with its own
\* hooks, and _send raises RetryError instead of returning the last response;
\* under any policy _send makes no more attempts than the policy allows.
C6_RetryExhaustedAfterExactlyNAttempts ==
    Sent =>
        /\ lastCall.attempts <= lastCall.policy.stop
        /\ TransportCalls(lastCall.events) <= lastCall.attempts
        /\ EveryAttemptRetryable =>
               /\ lastCall.attempts = lastCall.policy.stop
               /\ TransportCalls(lastCall.events) = lastCall.policy.stop
               /\ Len(lastCall.events) =
                      lastCall.policy.stop * (2 * Len(lastCall.hooks) + 1)
               /\ lastCall.outcome.kind = "raise"
               /\ lastCall.outcome.exc = "RetryError"
               /\ lastCall.outcome.detail.actual = LastAnswer.status

\* The test's policy gives up after MaxAttempts answers of 404.
C6_Witness ==
    /\ Sent /\ EveryAttemptRetryable
    /\ lastCall.policy = ResultRetry(MaxAttempts)
    /\ LastAnswer.status = 404
    /\ lastCall.outcome.exc = "RetryError"
    /\ TransportCalls(lastCall.events) = MaxAttempts

\* C7: a call with no retry policy and no status expectation makes exactly
\* one transport call and returns the raw response, whatever its status,
\* without raising.
C7_PlainCallReturnsRawResponse ==
    (Sent /\ lastCall.policy = NoRetry /\ lastCall.call.kwargs = {}
          /\ LastAnswer # NoReply) =>
        /\ TransportCalls(lastCall.events) = 1
        /\ lastCall.outcome.kind = "return"
        /\ lastCall.outcome.status = LastAnswer.status
        /\ lastCall.outcome.body = LastAnswer.body

\* C8: around every transport call that is answered, the request callbacks
\* of all registered handlers run before it and the response callbacks of all
\* registered handlers run after it, both in registration order, none
\* skipped, duplicated or reordered.
C8_HooksRunInRegistrationOrder ==
    Sent =>
        LET ev == lastCall.events
            hs == lastCall.hooks
            n == Len(lastCall.hooks)
        IN  \A i \in 1..Len(ev) :
                (ev[i].ev = "transport" /\ ev[i].res = "ok") =>
                    /\ i > n
                    /\ i + n <= Len(ev)
                    /\ \A j \in 1..n :
                           /\ ev[i - n + j - 1].ev = "request"
                           /\ ev[i - n + j - 1].h = hs[j]
                           /\ ev[i + j].ev = "response"
                           /\ ev[i + j].h = hs[j]

\* C9: whenever the session exists, its request callbacks and its response
\* callbacks are exactly the registered handler list, in its order; the
\* request callbacks a call runs are those of the handlers registered at the
\* time of the call, from the first on.
C9_SessionHooksAreTheHandlerList ==
    /\ client # NoClient =>
           /\ client.request = handlers
           /\ client.response = handlers
    /\ (Sent /\ lastCall.call.kwargs = {}) =>
           /\ lastCall.hooks = handlers
           /\ \E m \in 1..Len(handlers) :
                  /\ m <= Len(lastCall.events)
                  /\ \A j \in 1..m :
                         /\ lastCall.events[j].ev = "request"
                         /\ lastCall.events[j].h = handlers[j]
                  /\ m < Len(handlers) => lastCall.events[m].res = "raised"

\* add_handler on a client whose session exists already.
C9_Witness ==
    /\ lastCall.op = "add_handler" /\ lastCall.had_client
    /\ client # NoClient
    /\ Len(client.request) = Len(DefaultHandlers) + 1
    /\ client.request[Len(client.request)].kind = "Curl"

\* C10: close() with no session, or again after a close(), changes nothing;
\* no session is closed twice: a session that is no longer the client's has
\* been closed exactly once, the live one not yet.
C10_CloseIsIdempotent ==
    /\ \A i \in 1..Len(closes) : closes[i] = IF client.id = i THEN 0 ELSE 1
    /\ lastCall.op = "close" =>
           /\ client = NoClient
           /\ ~lastCall.had_client => ~lastCall.changed

\* A close() after the close() of the first session.
C10_Witness ==
    /\ lastCall.op = "close" /\ ~lastCall.had_client
    /\ Len(closes) >= 1 /\ closes[1] = 1

\* C11: the session is built lazily and at most once before close(): a client
\* that has only been constructed has no session; after a send or __enter__
\* there is one; and a send or __enter__ on a client that has a session keeps
\* that session and creates no other.
C11_SessionIsLazyAndCreatedOnce ==
    /\ [](lastCall.op = "none" => (client = NoClient /\ closes = <<>>))
    /\ [](lastCall.op \in {"send", "enter"} => client # NoClient)
    /\ [][(lastCall'.op \in {"send", "enter"} /\ client # NoClient) =>
              (client' = client /\ closes' = closes)]_vars
    /\ [][(lastCall'.op \in {"send", "enter"} /\ client = NoClient) =>
              (client'.id = Len(closes) + 1 /\ Len(closes') = Len(closes) + 1)]_vars

\* A second send on the session the first send created.
C11_Witness ==
    /\ lastCall.op = "send" /\ lastCall.had_client /\ ~lastCall.changed
    /\ client.id = 1 /\ closes = <<0>>

\* C12: a with-block on the client has a session from its entry, and when
\* the block is left, normally or by an exception of the body, the client has
\* no session and every session it created has been closed exactly once.
C12_WithBlockReleasesSession ==
    /\ lastCall.op = "enter" => (inWith /\ client # NoClient)
    /\ lastCall.op \in {"exit", "exit_raise"} =>
           /\ ~inWith
           /\ client = NoClient
           /\ \A i \in 1..Len(closes) : closes[i] = 1

\* The body of the block raised while the session of the block was live.
C12_Witness ==
    /\ lastCall.op = "exit_raise" /\ lastCall.had_client /\ lastCall.changed
    /\ closes = <<1>>

\* C15: a failure inside a handler's callback never reaches the caller and
\* never cuts the flow short: in a call the session accepts, no callback lets
\* an exception out, every callback of every handler runs around every
\* answered transport call, and a call that is answered returns the answer.
C15_HookFailureIsContained ==
    (Sent /\ lastCall.call.kwargs = {}) =>
        /\ \A i \in 1..Len(lastCall.events) : lastCall.events[i].res # "raised"
        /\ lastCall.outcome.exc # "UnicodeDecodeError"
        /\ (lastCall.policy = NoRetry /\ lastCall.script[1] # NoReply) =>
               /\ Len(lastCall.events) = 2 * Len(lastCall.hooks) + 1
               /\ lastCall.outcome.kind = "return"

\* C16: _truncate_body of a str, dict or list whose string form has more than
\* 40,000 characters is a string: the first 40,000 characters of that form,
\* then the 21 characters of the marker; of anything else it is the argument.
C16_TruncateBodyCutsAtThreshold ==
    shown # NotCalled =>
        IF data.type \in {"str", "dict", "list"} /\ Len(Str(data)) > 40000
        THEN /\ DOMAIN shown = {"type", "chars"}
             /\ shown.type = "str"
             /\ Len(shown.chars) = 40000 + 21
             /\ \E form \in {Str(data)} :
                    \A i \in 1..40000 : shown.chars[i] = form[i]
             /\ \A j \in 1..21 : shown.chars[40000 + j] = truncate_message[j]
        ELSE shown = data

\* A dict whose string form is one character too long.
C16_Witness ==
    /\ data.type = "dict" /\ data.len = 40001
    /\ shown # NotCalled /\ shown # data
    /\ shown.type = "str" /\ Len(shown.chars) = 40021

\* The attempts of the last call whose answer its retry policy accepts.
AcceptedAttempts ==
    {k \in 1..Len(lastCall.script) :
        /\ lastCall.script[k] # NoReply
        /\ lastCall.script[k].status \notin lastCall.policy.on_status}

\* C17: with a retry policy on the returned status and an expected status,
\* the expectation is applied to the first answer the policy accepts and to
\* no earlier one: the call makes the attempts up to that answer, returns it
\* when its status is the expected one, and raises UnexpectedStatusError
\* when it is another.
C17_StatusCheckedOnlyOnAcceptedResponse ==
    (Sent /\ "expected_status" \in lastCall.call.kwargs
          /\ lastCall.policy.on_status # {} /\ AcceptedAttempts # {}) =>
        LET k == CHOOSE a \in AcceptedAttempts : \A b \in AcceptedAttempts : a <= b
        IN  /\ lastCall.attempts = k
            /\ TransportCalls(lastCall.events) = k
            /\ IF lastCall.script[k].status = lastCall.call.expected_status
               THEN /\ lastCall.outcome.kind = "return"
                    /\ lastCall.outcome.status = lastCall.call.expected_status
               ELSE /\ lastCall.outcome.kind = "raise"
                    /\ lastCall.outcome.exc = "UnexpectedStatusError"

\* C22: destroying the client closes the session it still has, and does
\* nothing when it has none; afterwards no session of the client is open and
\* each has been closed exactly once.
C22_DestructionClosesOpenSession ==
    lastCall.op = "del" =>
        /\ client = NoClient
        /\ \A i \in 1..Len(closes) : closes[i] = 1
        /\ lastCall.outcome.kind # "raise"
        /\ ~lastCall.had_client => ~lastCall.changed

\* A client is destroyed with its first session still open.
C22_Witness ==
    /\ lastCall.op = "del" /\ lastCall.had_client /\ lastCall.changed
    /\ closes = <<1>>

\* C23: a client's registered handlers are those it was constructed with and
\* those added through its own add_handler, in that order, whatever other
\* clients do; a request runs the callbacks of exactly these.
C23_ClientsShareNoHandlerList ==
    \A d \in Clients :
        clients[d].built =>
            /\ lists[clients[d].handlersRef] = clients[d].own
            /\ shareOp = [op |-> "send", c |-> d] => clients[d].ran = clients[d].own

\* C24: the client's default headers are the contents the caller's mapping
\* had at construction, in the client's own dict and in the session built
\* from it, whatever the caller does to its mapping afterwards; no operation
\* of a client changes the caller's mapping.
C24_DefaultHeadersAreACopy ==
    /\ [](\A c \in Clients :
             clients[c].built =>
                 /\ clients[c].headersRef # CallerMap
                 /\ maps[clients[c].headersRef] = clients[c].argHeaders
                 /\ clients[c].session # NoClient =>
                        clients[c].sessionHeaders = clients[c].argHeaders)
    /\ [][shareOp'.op \in {"init", "add_handler", "send"} =>
              maps'[CallerMap] = maps[CallerMap]]_vars

\* A client sends the headers it was given after the caller changed them.
C24_Witness ==
    \E c \in Clients :
        /\ shareOp = [op |-> "send", c |-> c]
        /\ clients[c].givenHeaders /\ clients[c].argHeaders # EmptyMap
        /\ maps[CallerMap] # clients[c].argHeaders
        /\ clients[c].sessionHeaders = clients[c].argHeaders

\* C26: a send or __enter__ on a client whose session has been closed creates
\* a session that did not exist before, open, with every registered handler
\* bound in order as request and as response callback; at no moment is more
\* than one session of the client open; and a close, an __exit__ or the
\* destruction of a client that has a session closes that session and leaves
\* the client with none.
C26_ReusableAfterClose ==
    /\ [][(lastCall'.op \in {"send", "enter"} /\ client = NoClient /\ closes # <<>>) =>
              /\ client' # NoClient
              /\ client'.id \notin 1..Len(closes)
              /\ client'.id \in 1..Len(closes')
              /\ closes'[client'.id] = 0
              /\ client'.request = handlers'
              /\ client'.response = handlers']_vars
    /\ [](Cardinality({i \in 1..Len(closes) : closes[i] = 0}) <= 1)
    /\ [][(lastCall'.op \in {"close", "exit", "exit_raise", "del"} /\ client # NoClient) =>
              /\ client' = NoClient
              /\ closes'[client.id] = 1]_vars

\* A send after a close: the second session, with an added handler bound.
C26_Witness ==
    /\ lastCall.op = "send" /\ ~lastCall.had_client
    /\ client.id = 2 /\ closes = <<1, 0>>
    /\ Len(handlers) > Len(DefaultHandlers)
    /\ client.request = handlers

\* C27: a client constructed with a handler list has exactly the handlers of
\* that list registered, the empty list included; a client constructed
\* without one has the three default handlers.
C27_ExplicitHandlerListIsRegistered ==
    \A c \in Clients :
        clients[c].built =>
            clients[c].initial = IF clients[c].given THEN clients[c].argList
                                 ELSE DefaultHandlers

\* ------------------------------------------------------- specifications

\* The providers as constructed, with one client that is never used.
InitAuth ==
    /\ AuthInit /\ CoreInit /\ BodyInit /\ RaceInit /\ ShareInit
    /\ ClientInit([given |-> FALSE, list |-> <<>>])

NextAuth ==
    \/ \E p \in Providers, reply \in EndpointReplies, status \in ApiStatuses :
           Authenticate(p, reply, status)
    \/ \E p \in Providers, id \in SwitchIdentities : SwitchEnter(p, id)
    \/ \E p \in Providers : SwitchExit(p)
    \/ \E p \in Providers : SwitchExitRaise(p)

\* The auth providers and the token cache.
SpecAuth == InitAuth /\ [][NextAuth]_vars

NextRefresh ==
    \/ \E p \in Providers, reply \in EndpointReplies, status \in ApiStatuses :
           Authenticate(p, reply, status)
    \/ \E p \in Providers : RefreshMissing(p)
    \/ \E p \in CoreProviders, reply \in EndpointReplies, status \in ApiStatuses :
           CoreAuthFlow(p, reply, status)
    \/ \E p \in CoreProviders, reply \in EndpointReplies : RefreshToken(p, reply)

\* The providers of both classes, authenticating and asked to refresh.
SpecRefresh == InitAuth /\ [][NextRefresh]_vars

\* Providers of the client-credentials grant, with every choice of client ids.
InitGrant ==
    /\ \E ids \in [Providers -> ClientIds] : ClientCredentialsInit(ids)
    /\ CoreInit /\ BodyInit /\ RaceInit /\ ShareInit
    /\ ClientInit([given |-> FALSE, list |-> <<>>])

NextGrant ==
    \E p \in Providers, reply \in EndpointReplies, status \in ApiStatuses :
        Authenticate(p, reply, status)

SpecGrant == InitGrant /\ [][NextGrant]_vars

\* Two clients to construct, and the caller's list and mapping as the caller
\* built them.
InitShare ==
    /\ AuthInit /\ CoreInit /\ BodyInit /\ RaceInit
    /\ ClientInit([given |-> FALSE, list |-> <<>>])
    /\ \E l \in CallerLists : lists = <<l>>
    /\ \E m \in CallerMappings : maps = <<m>>
    /\ clients = [c \in Clients |-> Unbuilt]
    /\ shareOp = NoShareOp

NextShare ==
    \/ \E c \in Clients, passList \in BOOLEAN, passMap \in BOOLEAN :
           Construct(c, passList, passMap)
    \/ \E c \in Clients : AddHandlerTo(c, "Logging")
    \/ \E c \in Clients : SendFrom(c)
    \/ \E name \in HeaderNames, value \in HeaderValues \cup {Absent} :
           CallerSetsHeader(name, value)

SpecShare == InitShare /\ [][NextShare]_vars

\* A client as constructed, with every form of its handlers argument.
Init ==
    /\ AuthInit /\ CoreInit /\ BodyInit /\ RaceInit /\ ShareInit
    /\ \E arg \in CtorHandlers : ClientInit(arg)

NextClient ==
    \/ \E kind \in HandlerKinds : AddHandler(kind)
    \/ Enter
    \/ \E raised \in BOOLEAN : Exit(raised)
    \/ Close
    \/ Del
    \/ SendHooked
    \/ SendHookedRetry

\* One client: its handlers, its session and the hooks around a request.
SpecClient == Init /\ [][NextClient]_vars

NextSend ==
    \/ SendOnce
    \/ SendRetry
    \/ SendTyped
    \/ SendTypedRetry

\* One client: the calls of _send, with retry policies and typed options.
SpecSend == Init /\ [][NextSend]_vars

NextRace ==
    \/ \E c \in Callers : StartCall(c)
    \/ \E c \in Callers : CheckCache(c)
    \/ \E c \in Callers : ReadCache(c)
    \/ \E c \in Callers, reply \in EndpointReplies : PostForToken(c, reply)
    \/ \E c \in Callers : StoreToken(c)
    \/ \E c \in Callers : SetHeader(c)

\* Two threads authenticating under the admin identity, interleaved.
SpecRace == InitAuth /\ [][NextRace]_vars

\* The provider two threads share: one sends requests through it, the other
\* runs with-blocks of its switch_to_user.
SharedProvider == 1

NextSwitchRace ==
    \/ StartCall(SharedProvider)
    \/ CheckCache(SharedProvider)
    \/ ReadCache(SharedProvider)
    \/ \E reply \in EndpointReplies : PostForToken(SharedProvider, reply)
    \/ StoreToken(SharedProvider)
    \/ SetHeader(SharedProvider)
    \/ \E id \in SwitchIdentities : SwitchEnter(SharedProvider, id)
    \/ SwitchExit(SharedProvider)
    \/ SwitchExitRaise(SharedProvider)

\* A thread authenticating through a provider whose user another thread
\* switches, interleaved.
SpecSwitchRace == InitAuth /\ [][NextSwitchRace]_vars

\* A body of every explored type and length, handed to _truncate_body.
InitTruncate ==
    /\ AuthInit /\ CoreInit /\ RaceInit /\ ShareInit
    /\ ClientInit([given |-> FALSE, list |-> <<>>])
    /\ data \in DataInputs
    /\ shown = NotCalled

NextTruncate == Truncate

SpecTruncate == InitTruncate /\ [][NextTruncate]_vars

Next == NextSwitchRace \/ NextShare \/ NextGrant \/ NextTruncate \/ NextRace \/ NextAuth \/ NextRefresh \/ NextClient \/ NextSend

Spec == Init /\ [][Next]_vars

====
